---- MODULE Spec2Model ----
(***************************************************************************)
(* A model of the MSP -> MassBank converter: the record-boundary parser    *)
(* (src/parsers/msp_parser.py, MSPParser.parse_lines) and the multi-       *)
(* provider classification resolver with its write-through cache           *)
(* (src/stebantolib/classifiers/classyfire.py).                            *)
(*                                                                         *)
(* A text line is modelled as the sequence of its lexical tokens: a word   *)
(* (a string without blank or colon), WS (a run of white space) or COLON.  *)
(* Concatenating the tokens gives the line's text.  Floats are modelled as *)
(* integers counting tenths (float("1.5") is 15, float("1") is 10).        *)
(***************************************************************************)
EXTENDS Integers, Sequences, FiniteSets, TLC

VARIABLES
  lines,          \* parse_lines: the input lines the for loop has consumed
  records,        \* parse_lines: records
  current_data,   \* parse_lines: current_data (dict target field -> value)
  current_peaks,  \* parse_lines: current_peaks
  out,            \* what parse_lines has printed (stdout)
  pc              \* "loop" inside the for loop, "done" after return

VARIABLES
  cache,            \* ClassificationCache._cache (dict key -> classification)
                    \* of the service the caller holds
  keys,             \* the keys of that dict in the order they were inserted
  own,              \* the config and service the module's entry point has
                    \* built for the call it serves (None: the call is made
                    \* on the service the caller holds)
  store,            \* the durable store, the file at cache_path
  disable_wishart,  \* ClassifierConfig.disable_wishart of the held service
  remote,           \* how each remote endpoint answers: a set of behaviours
  rpc,              \* where get_compound_classes stands ("idle" outside a call)
  args,             \* the arguments (inchikey, smiles) of the current call
  trace,            \* the cache lookups and requests of the current call
  result,           \* what the last call returned
  ncall,            \* calls started (counted when a call is repeated)
  previous          \* result and trace of the call before the current one

pvars == <<lines, records, current_data, current_peaks, out, pc>>

rvars == <<cache, keys, own, store, disable_wishart, remote, rpc, args, trace,
           result, ncall, previous>>

vars == <<pvars, rvars>>

\* ------------------------------------------------------------------------
\* Bounds
\* ------------------------------------------------------------------------
MaxLines == 5

\* ------------------------------------------------------------------------
\* Text helpers
\* ------------------------------------------------------------------------
WS == " "
COLON == ":"

RECURSIVE Join(_)
\* the text of a token sequence
Join(s) == IF s = <<>> THEN "" ELSE Head(s) \o Join(Tail(s))

RECURSIVE LStrip(_)
LStrip(s) == IF s # <<>> /\ Head(s) = WS THEN LStrip(Tail(s)) ELSE s

RECURSIVE RStrip(_)
RStrip(s) ==
  IF s # <<>> /\ s[Len(s)] = WS THEN RStrip(SubSeq(s, 1, Len(s) - 1)) ELSE s

\* str.strip
Strip(s) == RStrip(LStrip(s))

\* str.split(): the words of the line, white space dropped
Split(s) == SelectSeq(s, LAMBDA t : t # WS)

\* index of the first COLON of s, 0 when there is none
FirstColon(s) ==
  IF \E i \in 1..Len(s) : s[i] = COLON
    THEN CHOOSE i \in 1..Len(s) :
           s[i] = COLON /\ \A j \in 1..(i - 1) : s[j] # COLON
    ELSE 0

\* str.upper on one token (the words the model's inputs use)
UpperTable ==
  [t \in {"charge", "Num", "Peaks", "TestMol", "abc"} |->
     CASE t = "charge" -> "CHARGE"
       [] t = "Num" -> "NUM"
       [] t = "Peaks" -> "PEAKS"
       [] t = "TestMol" -> "TESTMOL"
       [] t = "abc" -> "ABC"]

UpperTok(t) == IF t \in DOMAIN UpperTable THEN UpperTable[t] ELSE t

\* field_name.replace(' ', '_').upper()
CleanName(name) ==
  Join([i \in 1..Len(name) |-> IF name[i] = WS THEN "_" ELSE UpperTok(name[i])])

\* int(token): the integer literals of the model's inputs
IntLiteral == [t \in {"1", "2"} |-> IF t = "1" THEN 1 ELSE 2]

\* float(token), in tenths
FloatLiteral ==
  [t \in {"1", "2", "1.5", "50.0", "100.0", "200.0", "999.0"} |->
     CASE t = "1" -> 10
       [] t = "2" -> 20
       [] t = "1.5" -> 15
       [] t = "50.0" -> 500
       [] t = "100.0" -> 1000
       [] t = "200.0" -> 2000
       [] t = "999.0" -> 9990]

\* ------------------------------------------------------------------------
\* MSPParser.FIELD_PARSERS
\* ------------------------------------------------------------------------
FIELD_PARSERS ==
  [n \in {"CHARGE", "IONMODE", "SMILES", "INCHI", "PUBMED", "CCS",
          "COL_ENERGY1", "COL_ENERGY2", "MS_LEVEL", "INSTRUMENT_TYPE",
          "COMPOUND_NAME", "PRECURSOR_MZ", "INCHIKEY", "NUM_PEAKS"} |->
     CASE n = "CHARGE" -> <<"int", "charge">>
       [] n = "IONMODE" -> <<"str.upper", "ion_mode">>
       [] n = "SMILES" -> <<"str", "smiles">>
       [] n = "INCHI" -> <<"str", "inchi">>
       [] n = "PUBMED" -> <<"str", "pubmed">>
       [] n = "CCS" -> <<"float", "ccs">>
       [] n = "COL_ENERGY1" -> <<"float", "col_energy1">>
       [] n = "COL_ENERGY2" -> <<"float", "col_energy2">>
       [] n = "MS_LEVEL" -> <<"int", "ms_level">>
       [] n = "INSTRUMENT_TYPE" -> <<"str", "instrument_type">>
       [] n = "COMPOUND_NAME" -> <<"str", "compound_name">>
       [] n = "PRECURSOR_MZ" -> <<"float", "precursor_mz">>
       [] n = "INCHIKEY" -> <<"str", "inchikey">>
       [] n = "NUM_PEAKS" -> <<"int", "num_peaks">>]

\* parser(value): ok = FALSE stands for ValueError
ApplyParser(parser, value) ==
  CASE parser = "int" ->
         IF Len(value) = 1 /\ value[1] \in DOMAIN IntLiteral
           THEN [ok |-> TRUE, val |-> IntLiteral[value[1]]]
           ELSE [ok |-> FALSE, val |-> 0]
    [] parser = "float" ->
         IF Len(value) = 1 /\ value[1] \in DOMAIN FloatLiteral
           THEN [ok |-> TRUE, val |-> FloatLiteral[value[1]]]
           ELSE [ok |-> FALSE, val |-> 0]
    [] parser = "str.upper" ->
         [ok |-> TRUE, val |-> Join([i \in 1..Len(value) |-> UpperTok(value[i])])]
    [] parser = "str" -> [ok |-> TRUE, val |-> Join(value)]

\* MSPRecord(**current_data): an attribute that is None is a field outside
\* the domain of fields
MSPRecord(data, peaks) == [fields |-> data, peaks |-> peaks]

\* d[k] = v on a dict
DictSet(d, k, v) == [x \in (DOMAIN d) \cup {k} |-> IF x = k THEN v ELSE d[x]]

EmptyDict == [x \in {} |-> 0]

\* ------------------------------------------------------------------------
\* MSPParser.parse_lines, on the parser state
\*   [records, current_data, current_peaks, out]
\* ------------------------------------------------------------------------
PState(r, d, p, o) ==
  [records |-> r, current_data |-> d, current_peaks |-> p, out |-> o]

\* flush_record() without the test of current_peaks
flush_record_any_peaks(st) ==
  [st EXCEPT
     !.records =
        IF DOMAIN st.current_data # {}
          THEN Append(@, MSPRecord(st.current_data, st.current_peaks))
          ELSE @,
     !.current_data = EmptyDict,
     !.current_peaks = <<>>]

\* flush_record() clearing the peaks only when it appends a record
flush_record_keep_peaks(st) ==
  [st EXCEPT
     !.records =
        IF DOMAIN st.current_data # {} /\ st.current_peaks # <<>>
          THEN Append(@, MSPRecord(st.current_data, st.current_peaks))
          ELSE @,
     !.current_data = EmptyDict,
     !.current_peaks =
        IF DOMAIN st.current_data # {} /\ st.current_peaks # <<>> THEN <<>> ELSE @]

\* flush_record()
flush_record(st) ==
  [st EXCEPT
     !.records =
        IF DOMAIN st.current_data # {} /\ st.current_peaks # <<>>
          THEN Append(@, MSPRecord(st.current_data, st.current_peaks))
          ELSE @,
     !.current_data = EmptyDict,
     !.current_peaks = <<>>]

\* store_field keeping the unconverted text when the conversion fails
store_field_raw(st, field_name, field_name_clean, value) ==
  LET parser == FIELD_PARSERS[field_name_clean][1]
      target_field == FIELD_PARSERS[field_name_clean][2]
      r == ApplyParser(parser, value)
  IN IF r.ok
       THEN [st EXCEPT !.current_data = DictSet(@, target_field, r.val)]
       ELSE [st EXCEPT
               !.current_data = DictSet(@, target_field, Join(value)),
               !.out = Append(@, <<"Warning: Could not parse", Join(field_name), Join(value)>>)]

\* the try/except around current_data[target_field] = parser(value)
store_field(st, field_name, field_name_clean, value) ==
  LET parser == FIELD_PARSERS[field_name_clean][1]
      target_field == FIELD_PARSERS[field_name_clean][2]
      r == ApplyParser(parser, value)
  IN IF r.ok
       THEN [st EXCEPT !.current_data = DictSet(@, target_field, r.val)]
       ELSE [st EXCEPT !.out =
               Append(@, <<"Warning: Could not parse", Join(field_name), Join(value)>>)]

\* field_line storing the CHARGE value before the flush
field_line_store_first(st, stripped_line) ==
  LET c == FirstColon(stripped_line)
      field_name == Strip(SubSeq(stripped_line, 1, c - 1))
      value == Strip(SubSeq(stripped_line, c + 1, Len(stripped_line)))
      field_name_clean == CleanName(field_name)
      stored == IF field_name_clean \in DOMAIN FIELD_PARSERS
                  THEN store_field(st, field_name, field_name_clean, value)
                  ELSE st
  IN IF field_name_clean = "CHARGE" THEN flush_record(stored) ELSE stored

\* field_line flushing only when the CHARGE value converts
field_line_flush_if_ok(st, stripped_line) ==
  LET c == FirstColon(stripped_line)
      field_name == Strip(SubSeq(stripped_line, 1, c - 1))
      value == Strip(SubSeq(stripped_line, c + 1, Len(stripped_line)))
      field_name_clean == CleanName(field_name)
      flushed == IF field_name_clean = "CHARGE" /\ ApplyParser("int", value).ok
                   THEN flush_record(st) ELSE st
  IN IF field_name_clean \in DOMAIN FIELD_PARSERS
       THEN store_field(flushed, field_name, field_name_clean, value)
       ELSE flushed

\* the branch  if ':' in stripped_line
field_line(st, stripped_line) ==
  LET c == FirstColon(stripped_line)
      field_name == Strip(SubSeq(stripped_line, 1, c - 1))
      value == Strip(SubSeq(stripped_line, c + 1, Len(stripped_line)))
      field_name_clean == CleanName(field_name)
      flushed == IF field_name_clean = "CHARGE" THEN flush_record(st) ELSE st
  IN IF field_name_clean \in DOMAIN FIELD_PARSERS
       THEN store_field(flushed, field_name, field_name_clean, value)
       ELSE flushed

\* peak_line inserting the new peak at the front
peak_line_prepend(st, stripped_line) ==
  LET toks == Split(stripped_line)
  IN IF Len(toks) = 2 /\ \A i \in 1..2 : toks[i] \in DOMAIN FloatLiteral
       THEN [st EXCEPT !.current_peaks =
               <<(<<FloatLiteral[toks[1]], FloatLiteral[toks[2]]>>)>> \o @]
       ELSE st

\* the else branch: mz, intensity = map(float, stripped_line.split())
peak_line(st, stripped_line) ==
  LET toks == Split(stripped_line)
  IN IF Len(toks) = 2 /\ \A i \in 1..2 : toks[i] \in DOMAIN FloatLiteral
       THEN [st EXCEPT !.current_peaks =
               Append(@, <<FloatLiteral[toks[1]], FloatLiteral[toks[2]]>>)]
       ELSE st

\* the loop body with a warning for a field name FIELD_PARSERS does not hold
loop_body_warn_unknown(st, line) ==
  LET stripped_line == Strip(line)
      c == FirstColon(stripped_line)
      field_name == Strip(SubSeq(stripped_line, 1, c - 1))
  IN IF stripped_line = <<>> THEN st
     ELSE IF c # 0
       THEN IF CleanName(field_name) \in DOMAIN FIELD_PARSERS
              THEN field_line(st, stripped_line)
              ELSE [st EXCEPT !.out =
                      Append(@, <<"Warning: Unknown field", Join(field_name), "">>)]
     ELSE peak_line(st, stripped_line)

\* one iteration of  for line in lines
loop_body(st, line) ==
  LET stripped_line == Strip(line)
  IN IF stripped_line = <<>> THEN st
     ELSE IF FirstColon(stripped_line) # 0 THEN field_line(st, stripped_line)
     ELSE peak_line(st, stripped_line)

\* ------------------------------------------------------------------------
\* Inputs
\* ------------------------------------------------------------------------
InputLines ==
  { <<"CHARGE", COLON, WS, "1">>,
    <<"charge", COLON, WS, "2">>,
    <<"CHARGE", COLON, WS, "abc">>,
    <<"COMPOUND_NAME", COLON, WS, "TestMol">>,
    <<"Num", WS, "Peaks", COLON, WS, "1.5">>,
    <<"COMMENT", COLON, WS, "1">>,
    <<"100.0", WS, "50.0">>,
    <<"200.0", WS, "999.0", WS>>,
    <<"abc">>,
    <<WS>> }

\* ------------------------------------------------------------------------
\* The parser as a state machine
\* ------------------------------------------------------------------------
PInit ==
  /\ lines = <<>>
  /\ records = <<>>
  /\ current_data = EmptyDict
  /\ current_peaks = <<>>
  /\ out = <<>>
  /\ pc = "loop"
  \* no classification service is running
  /\ cache = EmptyDict
  /\ keys = <<>>
  /\ own = EmptyDict
  /\ store = EmptyDict
  /\ disable_wishart = FALSE
  /\ remote = EmptyDict
  /\ rpc = "idle"
  /\ args = EmptyDict
  /\ trace = <<>>
  /\ result = EmptyDict
  /\ ncall = 0
  /\ previous = EmptyDict

Here == PState(records, current_data, current_peaks, out)

SetState(st) ==
  /\ records' = st.records
  /\ current_data' = st.current_data
  /\ current_peaks' = st.current_peaks
  /\ out' = st.out

\* the for loop takes the next line of the input
ParseLine ==
  /\ pc = "loop"
  /\ Len(lines) < MaxLines
  /\ \E line \in InputLines :
       /\ lines' = Append(lines, line)
       /\ SetState(loop_body(Here, line))
  /\ pc' = "loop"
  /\ UNCHANGED rvars

\* EndOfInput returning records without the final flush
EndOfInput_no_flush ==
  /\ pc = "loop"
  /\ pc' = "done"
  /\ UNCHANGED <<lines, records, current_data, current_peaks, out>>
  /\ UNCHANGED rvars

\* the input is exhausted: the final flush_record() and return records
EndOfInput ==
  /\ pc = "loop"
  /\ SetState(flush_record(Here))
  /\ pc' = "done"
  /\ UNCHANGED lines
  /\ UNCHANGED rvars

PNext == ParseLine \/ EndOfInput

Spec == PInit /\ [][PNext]_vars

\* ------------------------------------------------------------------------
\* The input read so far, described line by line (reference definitions
\* used by the properties below)
\* ------------------------------------------------------------------------
IsBlankLine(l) == Strip(l) = <<>>

IsFieldLine(l) == FirstColon(Strip(l)) # 0

LineName(l) == CleanName(Strip(SubSeq(Strip(l), 1, FirstColon(Strip(l)) - 1)))

LineValue(l) ==
  Strip(SubSeq(Strip(l), FirstColon(Strip(l)) + 1, Len(Strip(l))))

IsChargeLine(l) == IsFieldLine(l) /\ LineName(l) = "CHARGE"

IsRecognized(l) == IsFieldLine(l) /\ LineName(l) \in DOMAIN FIELD_PARSERS

\* a recognized field whose value converts
IsConverted(l) ==
  IsRecognized(l) /\ ApplyParser(FIELD_PARSERS[LineName(l)][1], LineValue(l)).ok

\* a recognized field whose value fails its typed conversion
IsMalformed(l) ==
  IsRecognized(l) /\ ~ApplyParser(FIELD_PARSERS[LineName(l)][1], LineValue(l)).ok

\* a line of exactly two numeric tokens and no colon
IsPeakLine(l) ==
  /\ ~IsFieldLine(l)
  /\ Len(Split(l)) = 2
  /\ \A i \in 1..2 : Split(l)[i] \in DOMAIN FloatLiteral

PeakOf(l) == <<FloatLiteral[Split(l)[1]], FloatLiteral[Split(l)[2]]>>

\* the input lines by kind
ChargeLines == {l \in InputLines : IsChargeLine(l)}
ConvertedLines == {l \in InputLines : IsConverted(l)}
MalformedLines == {l \in InputLines : IsMalformed(l)}
PeakLines == {l \in InputLines : IsPeakLine(l)}
PeakValue == [l \in PeakLines |-> PeakOf(l)]

\* the segment of line i: the number of CHARGE lines among ls[1..i]
\* (segment 0 is what precedes the first CHARGE line)
SegOf(ls, i) == Cardinality({j \in 1..i : ls[j] \in ChargeLines})

NumSeg(ls) == SegOf(ls, Len(ls))

SegIdx(ls, s) == {i \in 1..Len(ls) : SegOf(ls, i) = s}

RECURSIVE PeaksFrom(_, _, _)
\* the peaks of the peak lines of segment s at positions >= i, in input order
PeaksFrom(ls, s, i) ==
  IF i > Len(ls) THEN <<>>
  ELSE IF SegOf(ls, i) = s /\ ls[i] \in PeakLines
         THEN <<PeakValue[ls[i]]>> \o PeaksFrom(ls, s, i + 1)
         ELSE PeaksFrom(ls, s, i + 1)

SegPeaks(ls, s) == PeaksFrom(ls, s, 1)

SegHasPeak(ls, s) == \E i \in SegIdx(ls, s) : ls[i] \in PeakLines

SegHasField(ls, s) == \E i \in SegIdx(ls, s) : ls[i] \in ConvertedLines

RECURSIVE EmittedPeaksFrom(_, _)
\* the peak lists of the segments from s on that hold a converted field and
\* a peak, in segment order
EmittedPeaksFrom(ls, s) ==
  IF s > NumSeg(ls) THEN <<>>
  ELSE IF SegHasPeak(ls, s) /\ SegHasField(ls, s)
         THEN <<SegPeaks(ls, s)>> \o EmittedPeaksFrom(ls, s + 1)
         ELSE EmittedPeaksFrom(ls, s + 1)

\* a step of the loop that reads line l
Reads(l) == pc = "loop" /\ lines' = Append(lines, l)

\* the final flush
Returns == pc = "loop" /\ pc' = "done"

\* what a flush of the current accumulator appends to records
Flushed ==
  IF DOMAIN current_data # {} /\ current_peaks # <<>>
    THEN Append(records, MSPRecord(current_data, current_peaks))
    ELSE records

\* ------------------------------------------------------------------------
\* C1: every record of the output has a non-empty peak list, whichever flush
\* (CHARGE line or end of input) appended it.
\* ------------------------------------------------------------------------
C1_NonEmptyPeaks == \A i \in 1..Len(records) : records[i].peaks # <<>>

\* a record was emitted, and a segment with a converted field and no peak
\* reached a flush
C1_Witness ==
  /\ pc = "done"
  /\ records # <<>>
  /\ \E s \in 0..NumSeg(lines) : SegHasField(lines, s) /\ ~SegHasPeak(lines, s)

\* ------------------------------------------------------------------------
\* C2: the number of records returned equals the number of CHARGE-delimited
\* segments of the input that hold at least one parseable peak line.
\* ------------------------------------------------------------------------
C2_RecordCount ==
  pc = "done" =>
    Len(records) = Cardinality({s \in 0..NumSeg(lines) : SegHasPeak(lines, s)})

\* ------------------------------------------------------------------------
\* parse_lines as a function of the whole input, and the record it emits for
\* a segment
\* ------------------------------------------------------------------------
RECURSIVE Loop(_)
\* the parser state after the for loop has consumed ls
Loop(ls) ==
  IF ls = <<>> THEN PState(<<>>, EmptyDict, <<>>, <<>>)
  ELSE loop_body(Loop(SubSeq(ls, 1, Len(ls) - 1)), ls[Len(ls)])

\* parse_lines(ls)
parse_lines(ls) == flush_record(Loop(ls)).records

\* the position of the line that closes segment s: the CHARGE line that
\* opens segment s + 1, or Len(ls) + 1 (end of input) for the last segment
SegClose(ls, s) ==
  IF s = NumSeg(ls) THEN Len(ls) + 1
  ELSE CHOOSE k \in 1..Len(ls) : ls[k] \in ChargeLines /\ SegOf(ls, k) = s + 1

RECURSIVE Trail(_)
\* the parser states of the for loop over ls: Trail(ls)[j + 1] is the state
\* after the first j lines
Trail(ls) ==
  IF ls = <<>> THEN <<PState(<<>>, EmptyDict, <<>>, <<>>)>>
  ELSE LET t == Trail(SubSeq(ls, 1, Len(ls) - 1))
       IN Append(t, loop_body(t[Len(t)], ls[Len(ls)]))

\* the records emitted for segment s of ls, read off the trail t of ls: what
\* the step closing the segment appends to records (<<>> when s is no
\* segment of ls)
RecordsOfSegIn(t, ls, s) ==
  IF s < 0 \/ s > NumSeg(ls) THEN <<>>
  ELSE LET k == SegClose(ls, s)
           before == t[k]
           after == IF k = Len(ls) + 1 THEN flush_record(before) ELSE t[k + 1]
       IN SubSeq(after.records, Len(before.records) + 1, Len(after.records))

\* the records parse_lines emits for segment s of ls
RecordsOfSeg(ls, s) == RecordsOfSegIn(Trail(ls), ls, s)

RemoveAt(ls, i) == SubSeq(ls, 1, i - 1) \o SubSeq(ls, i + 1, Len(ls))

ReplaceAt(ls, i, l) == [ls EXCEPT ![i] = l]

ValidChargeLine == <<"CHARGE", COLON, WS, "1">>

\* ------------------------------------------------------------------------
\* C3 as stated: for a malformed recognized field at line i, in segment N,
\* the records emitted for segments N-1 and N+1 are those of the input
\* without line i (when line i is the CHARGE marker the segments after it
\* are numbered one less in the input without it).
\* ------------------------------------------------------------------------
C3_AsIfAbsent ==
  pc = "done" =>
    \A i \in 1..Len(lines) :
      lines[i] \in MalformedLines =>
        LET N == SegOf(lines, i)
            absent == RemoveAt(lines, i)
            shift == IF lines[i] \in ChargeLines THEN 1 ELSE 0
        IN /\ RecordsOfSeg(lines, N - 1) = RecordsOfSeg(absent, N - 1)
           /\ RecordsOfSeg(lines, N + 1) = RecordsOfSeg(absent, N + 1 - shift)

\* ------------------------------------------------------------------------
\* C3 amended: the records emitted for segments N-1 and N+1 are those of the
\* input without line i when the malformed field is not CHARGE, and those of
\* the input with line i replaced by a well-formed CHARGE line when it is
\* the CHARGE marker (which is a boundary whatever its value); and the
\* records returned are the records of the segments in order.
\* ------------------------------------------------------------------------
C3_Independent ==
  pc = "done" =>
    \A here \in {Trail(lines)} :
      /\ records = flush_record(here[Len(here)]).records
      /\ \A i \in 1..Len(lines) :
           lines[i] \in MalformedLines =>
             LET N == SegOf(lines, i)
                 other == IF lines[i] \in ChargeLines
                            THEN ReplaceAt(lines, i, ValidChargeLine)
                            ELSE RemoveAt(lines, i)
             IN \A there \in {Trail(other)} :
                  /\ RecordsOfSegIn(here, lines, N - 1) = RecordsOfSegIn(there, other, N - 1)
                  /\ RecordsOfSegIn(here, lines, N + 1) = RecordsOfSegIn(there, other, N + 1)

\* a malformed CHARGE line between two segments that are both emitted
C3_Witness ==
  /\ pc = "done"
  /\ \E i \in 1..Len(lines) :
       /\ lines[i] \in MalformedLines \cap ChargeLines
       /\ RecordsOfSeg(lines, SegOf(lines, i) - 1) # <<>>
       /\ RecordsOfSeg(lines, SegOf(lines, i) + 1) # <<>>
  /\ Len(records) = 2

\* ------------------------------------------------------------------------
\* C4: on a CHARGE line the accumulator is flushed and reset before the new
\* value is stored: a record appended by that step holds the fields and
\* peaks accumulated before the line (so its charge is the old one), and
\* after the step the accumulator holds the new charge alone (nothing when
\* the value does not convert) and no peak.
\* ------------------------------------------------------------------------
C4_FlushBeforeStore ==
  [][\A l \in InputLines :
       (Reads(l) /\ l \in ChargeLines) =>
         /\ records' = Flushed
         /\ current_peaks' = <<>>
         /\ current_data' =
              IF IsConverted(l)
                THEN [f \in {"charge"} |-> IntLiteral[LineValue(l)[1]]]
                ELSE EmptyDict]_pvars

\* a CHARGE line was read that flushed a record whose charge differs from
\* the charge the accumulator now holds
C4_Witness ==
  /\ lines # <<>>
  /\ IsChargeLine(lines[Len(lines)])
  /\ records # <<>>
  /\ current_peaks = <<>>
  /\ "charge" \in DOMAIN records[Len(records)].fields
  /\ "charge" \in DOMAIN current_data
  /\ records[Len(records)].fields["charge"] # current_data["charge"]
  /\ SegPeaks(lines, NumSeg(lines) - 1) = records[Len(records)].peaks

\* ------------------------------------------------------------------------
\* C5: at end of input there is exactly one final flush, with the rule of a
\* CHARGE flush: the returned records are the records so far plus the
\* accumulator if it holds a field and a peak; nothing follows the return;
\* and the input CHARGE / COMPOUND_NAME / two peaks / CHARGE returns one
\* record with 2 peaks and the name TestMol.
\* ------------------------------------------------------------------------
C5_Scenario ==
  << <<"CHARGE", COLON, WS, "1">>,
     <<"COMPOUND_NAME", COLON, WS, "TestMol">>,
     <<"100.0", WS, "50.0">>,
     <<"200.0", WS, "999.0", WS>>,
     <<"CHARGE", COLON, WS, "1">> >>

C5_FinalFlush ==
  /\ [][Returns => records' = Flushed /\ lines' = lines]_pvars
  /\ [][pc # "done"]_pvars
  /\ []((pc = "done" /\ lines = C5_Scenario) =>
          /\ Len(records) = 1
          /\ records[1].peaks = <<(<<1000, 500>>), (<<2000, 9990>>)>>
          /\ records[1].fields = [f \in {"charge", "compound_name"} |->
                                    IF f = "charge" THEN 1 ELSE "TestMol"])

\* the last segment, with a field and a peak and no CHARGE line after it,
\* is the last record returned
C5_Witness ==
  /\ pc = "done"
  /\ NumSeg(lines) >= 1
  /\ IsPeakLine(lines[Len(lines)])
  /\ Len(records) = 2
  /\ records[2].peaks = SegPeaks(lines, NumSeg(lines))

\* ------------------------------------------------------------------------
\* C6: at every flush where the accumulator holds a field and no peak, the
\* accumulator is discarded and a warning naming the record (compound name,
\* else positional index) is printed.
\* ------------------------------------------------------------------------
IncompleteWarning ==
  <<"has no peaks",
    IF "compound_name" \in DOMAIN current_data
      THEN current_data["compound_name"]
      ELSE "index">>

C6_WarnsIncomplete ==
  [][((Returns \/ \E l \in InputLines : Reads(l) /\ l \in ChargeLines)
        /\ DOMAIN current_data # {} /\ current_peaks = <<>>) =>
       /\ records' = records
       /\ \E k \in 1..Len(out') : out'[k][1] = IncompleteWarning[1]]_pvars

\* ------------------------------------------------------------------------
\* C7: a recognized field whose value fails its conversion prints one
\* warning, sets no field and changes nothing else: the accumulator after
\* the step is the accumulator before it (after the flush, when the field is
\* CHARGE), a field of that name stays as it was, and the loop goes on.
\* ------------------------------------------------------------------------
C7_MalformedField ==
  [][\A l \in InputLines :
       (Reads(l) /\ l \in MalformedLines) =>
         /\ out' = Append(out, <<"Warning: Could not parse",
                                 Join(Strip(SubSeq(Strip(l), 1, FirstColon(Strip(l)) - 1))),
                                 Join(LineValue(l))>>)
         /\ current_data' = IF IsChargeLine(l) THEN EmptyDict ELSE current_data
         /\ current_peaks' = IF IsChargeLine(l) THEN <<>> ELSE current_peaks
         /\ records' = IF IsChargeLine(l) THEN Flushed ELSE records
         /\ pc' = "loop"]_pvars

\* a malformed non-CHARGE field was read in a segment that holds a field and
\* a peak, and the record was still emitted, without that field
C7_Witness ==
  /\ pc = "done"
  /\ Len(out) = 1
  /\ out[1] = <<"Warning: Could not parse", "Num Peaks", "1.5">>
  /\ Len(records) = 1
  /\ DOMAIN records[1].fields = {"charge", "compound_name"}
  /\ Len(records[1].peaks) = 1

\* ------------------------------------------------------------------------
\* C8: input order is preserved: the peak lists of the returned records are
\* the peak lists of the emitted segments, segment by segment in input
\* order, each with its peaks in the order of their lines.
\* ------------------------------------------------------------------------
C8_OrderPreserved ==
  pc = "done" =>
    [i \in 1..Len(records) |-> records[i].peaks] = EmittedPeaksFrom(lines, 0)

\* two records, the first with two different peaks
C8_Witness ==
  /\ pc = "done"
  /\ Len(records) = 2
  /\ Len(records[1].peaks) = 2
  /\ records[1].peaks[1] # records[1].peaks[2]
  /\ records[2].peaks # records[1].peaks

\* ========================================================================
\* The classification resolver (src/stebantolib/classifiers/classyfire.py)
\* ========================================================================

\* Python's None, for an Optional[Dict]
None == [py |-> "None"]

\* an Optional[str] argument: NoArg is None, Arg(t) the string of tokens t
NoArg == [some |-> FALSE, text |-> <<>>]
Arg(t) == [some |-> TRUE, text |-> t]

\* (x or "").strip()
OrEmptyStrip(a) == IF a.some THEN Strip(a.text) ELSE <<>>

\* d.get(k) or {} , for a dict of dicts
DictOr(d, k) == IF k \in DOMAIN d THEN d[k] ELSE EmptyDict

\* d.get(k) or "" , for a dict of strings
StrOr(d, k) == IF k \in DOMAIN d THEN d[k] ELSE ""

\* (d.get(k) or [""])[0] , for a dict of arrays of strings
FirstOr(d, k) == IF k \in DOMAIN d /\ d[k] # <<>> THEN d[k][1] ELSE ""

\* a or b , for strings
OrStr(a, b) == IF a # "" THEN a ELSE b

\* ClassificationService._is_valid_classification
required_fields == {"kingdom", "superclass", "class", "subclass", "direct_parent"}

\* _is_valid_classification accepting any non-empty dict
is_valid_any_dict(r) ==
  IF r = None THEN FALSE ELSE DOMAIN r # {}

is_valid_classification(r) ==
  IF r = None THEN FALSE
  ELSE /\ DOMAIN r # {}
       /\ \E f \in required_fields \cap DOMAIN r : r[f] # ""

\* ClassificationService._normalize_chemont_entity
normalize_chemont_entity(entity_data) ==
  IF DOMAIN entity_data = {} THEN None
  ELSE LET get_node(name) == StrOr(DictOr(entity_data, name), "name")
           get_node_id(name) == StrOr(DictOr(entity_data, name), "chemont_id")
           r == [ontology |-> "ChemOnt",
                 kingdom |-> get_node("kingdom"),
                 superclass |-> get_node("superclass"),
                 class |-> get_node("class"),
                 subclass |-> get_node("subclass"),
                 direct_parent |-> get_node("direct_parent"),
                 ontology_id |-> OrStr(get_node_id("direct_parent"),
                                  OrStr(get_node_id("class"), get_node_id("superclass"))),
                 source |-> "ClassyFire"]
       IN IF is_valid_classification(r) THEN r ELSE None

\* ClassificationService._normalize_npclassifier
\* _normalize_npclassifier taking the class from "pathway" and the
\* direct parent from "class"
normalize_npclassifier_swapped(npc_data) ==
  IF DOMAIN npc_data = {} THEN None
  ELSE [ontology |-> "NPClassifier",
        kingdom |-> "",
        superclass |-> FirstOr(npc_data, "superclass"),
        class |-> FirstOr(npc_data, "pathway"),
        subclass |-> "",
        direct_parent |-> FirstOr(npc_data, "class"),
        ontology_id |-> "",
        source |-> "NPClassifier"]

normalize_npclassifier(npc_data) ==
  IF DOMAIN npc_data = {} THEN None
  ELSE [ontology |-> "NPClassifier",
        kingdom |-> "",
        superclass |-> FirstOr(npc_data, "superclass"),
        class |-> FirstOr(npc_data, "class"),
        subclass |-> "",
        direct_parent |-> FirstOr(npc_data, "pathway"),
        ontology_id |-> "",
        source |-> "NPClassifier"]

\* ------------------------------------------------------------------------
\* The remote services.  A response is an HTTP response with a status and a
\* decoded JSON body, or a requests.exceptions.RequestException raised by the
\* session (a transport failure).  A behaviour is the pair of responses an
\* endpoint gives to the first attempt and to a second one.
\* ------------------------------------------------------------------------
Http(status, body) == [kind |-> "http", status |-> status, body |-> body, msg |-> ""]
Exc(msg) == [kind |-> "exc", status |-> 0, body |-> EmptyDict, msg |-> msg]

\* the messages of the transport failures the model raises, and those among
\* them in which _handle_request_error finds "getaddrinfo failed" or
\* "name resolution"
TransportMessages ==
  {"Read timed out", "Connection aborted", "Temporary failure in name resolution"}

NameResolutionMessages == {"Temporary failure in name resolution"}

\* the endpoints whose URL holds "wishartlab"
WishartSteps == {"primary", "classify"}

\* ClassificationService._handle_request_error: the flag after the call
handle_request_error(flag, msg, step) ==
  IF msg \in NameResolutionMessages /\ step \in WishartSteps THEN TRUE ELSE flag

Node(name, id) == [name |-> name, chemont_id |-> id]

PrimaryBody ==
  [kingdom |-> Node("Organic compounds", "CHEMONTID:0000000"),
   superclass |-> Node("Organic oxygen compounds", "CHEMONTID:0004603"),
   class |-> Node("Organooxygen compounds", "CHEMONTID:0000323"),
   direct_parent |-> Node("Primary alcohols", "CHEMONTID:0001661")]

MirrorBody ==
  [kingdom |-> Node("Organic compounds", "CHEMONTID:0000000"),
   class |-> Node("Organooxygen compounds", "CHEMONTID:0000323")]

ClassifyBody ==
  [superclass |-> Node("Organic oxygen compounds", "CHEMONTID:0004603")]

\* a body that names no rank
NamelessBody == [kingdom |-> Node("", "CHEMONTID:0000000")]

NpcBody == [superclass |-> <<"Alcohol">>, pathway |-> <<"Amino acids">>]

\* a non-empty body with no superclass, class or pathway value
NpcBlankBody == [superclass |-> <<>>, class |-> <<>>, pathway |-> <<>>]

\* an answer of the secondary classifier naming several values per array
NpcManyBody ==
  [class |-> <<"Flavones", "Flavonols">>,
   superclass |-> <<"Flavonoids", "Isoflavonoids">>,
   pathway |-> <<"Shikimates and Phenylpropanoids", "Polyketides">>]

Same(r) == <<r, r>>

\* the ways an entity or classify endpoint with valid body v may answer
EntityBehaviours(v) ==
  { Same(Http(200, v)),
    Same(Http(200, EmptyDict)),
    Same(Http(200, NamelessBody)),
    Same(Http(404, EmptyDict)),
    <<Http(429, EmptyDict), Http(200, v)>>,
    <<Http(503, EmptyDict), Http(429, EmptyDict)>>,
    <<Http(429, EmptyDict), Exc("Connection aborted")>>,
    Same(Exc("Read timed out")),
    Same(Exc("Temporary failure in name resolution")) }

\* the ways the secondary classifier may answer
NpcBehaviours ==
  { Same(Http(200, NpcBody)),
    Same(Http(200, EmptyDict)),
    Same(Http(200, NpcBlankBody)),
    Same(Http(200, NpcManyBody)),
    <<Http(429, EmptyDict), Http(200, NpcBody)>>,
    Same(Http(503, EmptyDict)),
    Same(Exc("Read timed out")) }

AnyRemote ==
  [primary |-> EntityBehaviours(PrimaryBody),
   mirror |-> EntityBehaviours(MirrorBody),
   classify |-> EntityBehaviours(ClassifyBody),
   npc |-> NpcBehaviours]

\* response.ok
Ok(resp) == resp.status < 400

\* Attempts with a second attempt after a transport failure too
Attempts_retry_failure(b) ==
  IF b[1].kind = "exc" \/ b[1].status \in {429, 503} THEN <<b[1], b[2]>> ELSE <<b[1]>>

\* ClassificationService._request_with_retry: the responses of the attempts
\* made, in order
Attempts(b) == IF b[1].kind = "http" /\ b[1].status \in {429, 503}
                 THEN <<b[1], b[2]>> ELSE <<b[1]>>

\* _request_with_retry repeating the request once more when the retry is
\* answered 429 or 503 again
request_retry_twice(b) ==
  IF b[1].kind = "http" /\ b[1].status \in {429, 503}
    THEN IF b[2].kind = "http" /\ b[2].status \in {429, 503}
           THEN <<b[1], b[2], b[2]>>
           ELSE <<b[1], b[2]>>
    ELSE <<b[1]>>

\* _request_with_retry without the retry
request_no_retry(b) == <<b[1]>>

request_with_retry(b) == Attempts(b)

\* what _request_with_retry returns: the last response, None after an
\* exception of either attempt
Returned(att) == att[Len(att)]

HasResponse(att) == Returned(att).kind = "http"

\* whether a RequestException of the attempts reaches the caller of
\* _request_with_retry: the except clause around both attempts returns None
\* for every one of them
Propagates(att) == FALSE

\* ------------------------------------------------------------------------
\* ClassificationCache
\* ------------------------------------------------------------------------
InchikeyTokens == <<"LFQSCWFLJHTTHZ-UHFFFAOYSA-N">>
SmilesTokens == <<"CCO">>

IkKey(inchikey) == "ik:" \o Join(inchikey)
SmilesKey(smiles) == "smiles:" \o Join(smiles)

FieldOrder == <<"ontology", "kingdom", "superclass", "class", "subclass",
                "direct_parent", "ontology_id", "source">>

\* json.dumps of a classification: its members, name and value
DumpsObject(v) ==
  LET present == SelectSeq(FieldOrder, LAMBDA f : f \in DOMAIN v)
  IN [i \in 1..Len(present) |-> <<present[i], v[present[i]]>>]

\* json.dumps(self._cache): the members of the document, in the order of
\* the dict (ks: its keys as they were inserted)
Dumps(d, ks) == [i \in 1..Len(ks) |-> <<ks[i], DumpsObject(d[ks[i]])>>]

\* json.loads of the members of an object
LoadsObject(ms) ==
  [f \in {ms[i][1] : i \in 1..Len(ms)} |->
     ms[CHOOSE i \in 1..Len(ms) :
          ms[i][1] = f /\ \A j \in (i + 1)..Len(ms) : ms[j][1] # f][2]]

\* json.loads keeping the first member of the document only
Loads_first_only(ms) ==
  IF ms = <<>> THEN EmptyDict
  ELSE [k \in {ms[1][1]} |-> LoadsObject(ms[1][2])]

\* json.loads of the members of the document
Loads(ms) ==
  [k \in {ms[i][1] : i \in 1..Len(ms)} |->
     LoadsObject(ms[CHOOSE i \in 1..Len(ms) :
                      ms[i][1] = k /\ \A j \in (i + 1)..Len(ms) : ms[j][1] # k][2])]

RECURSIVE LoadsKeys(_)
\* the keys of the dict json.loads makes of the members: each name at the
\* place of its first member
LoadsKeys(ms) ==
  IF ms = <<>> THEN <<>>
  ELSE LET before == LoadsKeys(SubSeq(ms, 1, Len(ms) - 1))
           k == ms[Len(ms)][1]
       IN IF \E i \in 1..Len(before) : before[i] = k
            THEN before ELSE Append(before, k)

\* the store: no file, a file whose bytes are no UTF-8 text, a file whose
\* text is no JSON document, or a JSON object
NoFile == [exists |-> FALSE, utf8 |-> FALSE, json |-> FALSE, members |-> <<>>]
UndecodableFile == [exists |-> TRUE, utf8 |-> FALSE, json |-> FALSE, members |-> <<>>]
BadFile == [exists |-> TRUE, utf8 |-> TRUE, json |-> FALSE, members |-> <<>>]
FileOf(d, ks) ==
  [exists |-> TRUE, utf8 |-> TRUE, json |-> TRUE, members |-> Dumps(d, ks)]

\* ClassificationCache._load_cache leaving with an exception: read_text
\* raises UnicodeDecodeError, which the except clause does not name
load_cache_raises(st) == st.exists /\ ~st.utf8

\* ClassificationCache._load_cache, when it returns
load_cache(st) == IF st.exists /\ st.json THEN Loads(st.members) ELSE EmptyDict

\* the order of the keys of the dict _load_cache returns
load_keys(st) ==
  IF st.exists /\ st.json
    THEN SelectSeq(LoadsKeys(st.members), LAMBDA k : k \in DOMAIN load_cache(st))
    ELSE <<>>

\* self._cache[key] = value on the order of the keys: a new key comes last,
\* a key the dict holds stays where it is
KeysSet(ks, key) ==
  IF \E i \in 1..Len(ks) : ks[i] = key THEN ks ELSE Append(ks, key)

\* ClassificationCache.get
cache_get(c, key) == IF key \in DOMAIN c THEN c[key] ELSE None

\* ClassificationCache.save writing the mapping without its last entry
save_without_last(c, ks) ==
  LET kept == SubSeq(ks, 1, Len(ks) - 1)
  IN FileOf([k \in {kept[i] : i \in 1..Len(kept)} |-> c[k]], kept)

\* ClassificationCache.save: what write_text leaves in the file
save(c, ks) == FileOf(c, ks)

\* ClassificationCache.put leaving the file as it was (c is what the file holds
\* only as long as nothing has been put)
put_unsaved(c, ks, key, value) ==
  [cache |-> DictSet(c, key, value),
   keys |-> KeysSet(ks, key),
   store |-> IF DOMAIN c = {} THEN NoFile ELSE save(c, ks)]

\* ClassificationCache.put, on the dict and its file
put(c, ks, key, value) ==
  LET c2 == DictSet(c, key, value)
      ks2 == KeysSet(ks, key)
  IN [cache |-> c2, keys |-> ks2, store |-> save(c2, ks2)]

\* ------------------------------------------------------------------------
\* ClassificationService.get_compound_classes as a state machine: one action
\* per lookup of the fallback chain, taken in the order rpc dictates
\* ------------------------------------------------------------------------
inchikey == OrEmptyStrip(args.inchikey)
smiles == OrEmptyStrip(args.smiles)

\* an entry of the trace: the step, what the lookup or attempt met, and the
\* classification the step made of it (None when it made none)
Event(step, outcome, yields) ==
  [step |-> step, outcome |-> outcome, yields |-> yields]

OutcomeOf(resp) ==
  CASE resp.kind = "exc" ->
         IF resp.msg \in NameResolutionMessages THEN "dns" ELSE "exc"
    [] resp.status = 200 -> "200"
    [] resp.status = 404 -> "404"
    [] resp.status = 429 -> "429"
    [] resp.status = 503 -> "503"

\* the trace entries of the attempts att of a step that ends with r
Events(step, att, r) ==
  [i \in 1..Len(att) |->
     Event(step, OutcomeOf(att[i]), IF i = Len(att) THEN r ELSE None)]

\* return r
Return(r) == rpc' = "idle" /\ result' = r

\* go on with the next step
Goto(step) == rpc' = step /\ result' = None

\* the service the call runs on: the one the module's entry point has built
\* for it, or the one the caller holds
Running ==
  IF own = None
    THEN [cache |-> cache, keys |-> keys, disable_wishart |-> disable_wishart]
    ELSE own

RunningCache == Running.cache

\* what a step of the call makes of that service, and of no other
Becomes(c, ks, flag) ==
  IF own = None
    THEN /\ cache' = c
         /\ keys' = ks
         /\ disable_wishart' = flag
         /\ own' = own
    ELSE /\ own' = [cache |-> c, keys |-> ks, disable_wishart |-> flag]
         /\ UNCHANGED <<cache, keys, disable_wishart>>

\* the entry of get_compound_classes with arguments a
Begin(a) ==
  /\ args' = a
  /\ trace' = <<>>
  /\ IF OrEmptyStrip(a.inchikey) # <<>> THEN Goto("by_inchikey")
     ELSE IF OrEmptyStrip(a.smiles) # <<>> THEN Goto("by_smiles")
     ELSE Return(None)

\* the step after the InChIKey lookups have yielded nothing
AfterInchikey == IF smiles # <<>> THEN Goto("by_smiles") ELSE Return(None)

\* the number of equal calls made one after the other
MaxCalls == 2

InchikeyArgs == {NoArg, Arg(<<WS>>), Arg(InchikeyTokens \o <<WS>>)}
SmilesArgs == {NoArg, Arg(SmilesTokens)}

\* a caller calls get_compound_classes(inchikey, smiles) on the service
Call ==
  /\ rpc = "idle"
  /\ ncall = 0
  /\ \E ik \in InchikeyArgs, sm \in SmilesArgs :
       Begin([inchikey |-> ik, smiles |-> sm])
  /\ UNCHANGED <<cache, keys, own, store, disable_wishart, remote, ncall, previous>>
  /\ UNCHANGED pvars

\* the caller repeats the call with the same arguments
CallAgain ==
  /\ rpc = "idle"
  /\ ncall < MaxCalls
  /\ Begin(args)
  /\ ncall' = ncall + 1
  /\ previous' = IF ncall >= 1 THEN [result |-> result, trace |-> trace] ELSE previous
  /\ UNCHANGED <<cache, keys, own, store, disable_wishart, remote>>
  /\ UNCHANGED pvars

\* _try_classyfire_by_inchikey going on to the request after a cache hit
TryInchikeyCache_no_return ==
  /\ rpc = "by_inchikey"
  /\ LET cached == cache_get(Running.cache, IkKey(inchikey))
     IN /\ trace' = Append(trace, Event("ik_cache",
                       IF is_valid_classification(cached) THEN "hit" ELSE "miss",
                       IF is_valid_classification(cached) THEN cached ELSE None))
        /\ Goto(IF Running.disable_wishart THEN "mirror" ELSE "primary")
  /\ UNCHANGED <<cache, keys, own, store, disable_wishart, remote, args, ncall, previous>>
  /\ UNCHANGED pvars

\* TryInchikeyCache with the primary URL in mirrors whatever the flag
TryInchikeyCache_ignore_flag ==
  /\ rpc = "by_inchikey"
  /\ LET cached == cache_get(Running.cache, IkKey(inchikey))
     IN IF is_valid_classification(cached)
          THEN /\ trace' = Append(trace, Event("ik_cache", "hit", cached))
               /\ Return(cached)
          ELSE /\ trace' = Append(trace, Event("ik_cache", "miss", None))
               /\ Goto("primary")
  /\ UNCHANGED <<cache, keys, own, store, disable_wishart, remote, args, ncall, previous>>
  /\ UNCHANGED pvars

\* _try_classyfire_by_inchikey: the cache lookup under ik:<inchikey>
TryInchikeyCache ==
  /\ rpc = "by_inchikey"
  /\ LET cached == cache_get(Running.cache, IkKey(inchikey))
     IN IF is_valid_classification(cached)
          THEN /\ trace' = Append(trace, Event("ik_cache", "hit", cached))
               /\ Return(cached)
          ELSE /\ trace' = Append(trace, Event("ik_cache", "miss", None))
               /\ Goto(IF Running.disable_wishart THEN "mirror" ELSE "primary")
  /\ UNCHANGED <<cache, keys, own, store, disable_wishart, remote, args, ncall, previous>>
  /\ UNCHANGED pvars

\* EntityGET returning the result without cache.put
EntityGET_no_put(e) ==
  /\ rpc = e
  /\ \E b \in remote[e] :
       LET att == request_with_retry(b)
           resp == Returned(att)
           r == IF HasResponse(att) /\ Ok(resp)
                  THEN normalize_chemont_entity(resp.body) ELSE None
           flag == IF Propagates(att)
                     THEN handle_request_error(Running.disable_wishart,
                                               Returned(att).msg, e)
                     ELSE Running.disable_wishart
       IN /\ trace' = trace \o Events(e, att, r)
          /\ Becomes(Running.cache, Running.keys, flag)
          /\ UNCHANGED store
          /\ IF is_valid_classification(r) THEN Return(r)
             ELSE IF e = "primary" THEN Goto("mirror") ELSE AfterInchikey
  /\ UNCHANGED <<remote, args, ncall, previous>>
  /\ UNCHANGED pvars

\* _query_classyfire_entities: the GET of one entity URL (e is "primary" or
\* "mirror"), and what _try_classyfire_by_inchikey does with a valid result
EntityGET(e) ==
  /\ rpc = e
  /\ \E b \in remote[e] :
       LET att == request_with_retry(b)
           resp == Returned(att)
           r == IF HasResponse(att) /\ Ok(resp)
                  THEN normalize_chemont_entity(resp.body) ELSE None
           flag == IF Propagates(att)
                     THEN handle_request_error(Running.disable_wishart,
                                               Returned(att).msg, e)
                     ELSE Running.disable_wishart
           after == put(Running.cache, Running.keys, IkKey(inchikey), r)
       IN /\ trace' = trace \o Events(e, att, r)
          /\ IF is_valid_classification(r)
               THEN /\ Becomes(after.cache, after.keys, flag)
                    /\ store' = after.store
                    /\ Return(r)
               ELSE /\ Becomes(Running.cache, Running.keys, flag)
                    /\ UNCHANGED store
                    /\ IF e = "primary" THEN Goto("mirror") ELSE AfterInchikey
  /\ UNCHANGED <<remote, args, ncall, previous>>
  /\ UNCHANGED pvars

\* the GET of CLASSYFIRE_ENTITY_URL, first of mirrors unless disabled
PrimaryGET ==
  /\ rpc = "primary"
  /\ EntityGET("primary")

\* the GET of FIEHNLAB_MIRROR, last of mirrors
MirrorGET ==
  /\ rpc = "mirror"
  /\ EntityGET("mirror")

\* _try_smiles_classification: the cache lookup under smiles:<smiles>
TrySmilesCache ==
  /\ rpc = "by_smiles"
  /\ LET cached == cache_get(Running.cache, SmilesKey(smiles))
     IN IF is_valid_classification(cached)
          THEN /\ trace' = Append(trace, Event("smiles_cache", "hit", cached))
               /\ Return(cached)
          ELSE /\ trace' = Append(trace, Event("smiles_cache", "miss", None))
               /\ Goto(IF ~Running.disable_wishart THEN "classify" ELSE "npc")
  /\ UNCHANGED <<cache, keys, own, store, disable_wishart, remote, args, ncall, previous>>
  /\ UNCHANGED pvars

\* the classify POST with its valid result put under the InChIKey's key
ClassifyPOST_put_ik ==
  /\ rpc = "classify"
  /\ \E b \in remote["classify"] :
       LET att == IF Running.disable_wishart THEN <<>> ELSE request_with_retry(b)
           r == IF att # <<>> /\ HasResponse(att) /\ Ok(Returned(att))
                  THEN normalize_chemont_entity(Returned(att).body) ELSE None
           flag == IF att # <<>> /\ Propagates(att)
                     THEN handle_request_error(Running.disable_wishart,
                                               Returned(att).msg, "classify")
                     ELSE Running.disable_wishart
           after == put(Running.cache, Running.keys, IkKey(inchikey), r)
       IN /\ trace' = trace \o Events("classify", att, r)
          /\ IF is_valid_classification(r)
               THEN /\ Becomes(after.cache, after.keys, flag)
                    /\ store' = after.store
                    /\ Return(r)
               ELSE /\ Becomes(Running.cache, Running.keys, flag)
                    /\ UNCHANGED store
                    /\ Goto("npc")
  /\ UNCHANGED <<remote, args, ncall, previous>>
  /\ UNCHANGED pvars

\* _query_classyfire_by_smiles: the POST to the classify endpoint, and what
\* _try_smiles_classification does with a valid result
ClassifyPOST ==
  /\ rpc = "classify"
  /\ \E b \in remote["classify"] :
       LET att == IF Running.disable_wishart THEN <<>> ELSE request_with_retry(b)
           r == IF att # <<>> /\ HasResponse(att) /\ Ok(Returned(att))
                  THEN normalize_chemont_entity(Returned(att).body) ELSE None
           flag == IF att # <<>> /\ Propagates(att)
                     THEN handle_request_error(Running.disable_wishart,
                                               Returned(att).msg, "classify")
                     ELSE Running.disable_wishart
           after == put(Running.cache, Running.keys, SmilesKey(smiles), r)
       IN /\ trace' = trace \o Events("classify", att, r)
          /\ IF is_valid_classification(r)
               THEN /\ Becomes(after.cache, after.keys, flag)
                    /\ store' = after.store
                    /\ Return(r)
               ELSE /\ Becomes(Running.cache, Running.keys, flag)
                    /\ UNCHANGED store
                    /\ Goto("npc")
  /\ UNCHANGED <<remote, args, ncall, previous>>
  /\ UNCHANGED pvars

\* _query_npclassifier: one session.get, whose result is returned as it is
NpcGET ==
  /\ rpc = "npc"
  /\ \E b \in remote["npc"] :
       LET att == <<b[1]>>
           r == IF HasResponse(att) /\ Ok(Returned(att))
                  THEN normalize_npclassifier(Returned(att).body) ELSE None
       IN /\ trace' = trace \o Events("npc", att, r)
          /\ Return(r)
  /\ UNCHANGED <<cache, keys, own, store, disable_wishart, remote, args, ncall, previous>>
  /\ UNCHANGED pvars

Lookup ==
  \/ TryInchikeyCache
  \/ PrimaryGET
  \/ MirrorGET
  \/ TrySmilesCache
  \/ ClassifyPOST
  \/ NpcGET

\* a classification whose ranks are all empty (what _normalize_npclassifier
\* makes of NpcBlankBody)
BlankEntry == normalize_npclassifier(NpcBlankBody)

\* the file save writes for a cache of one entry
OneEntryFile(key, value) == FileOf([k \in {key} |-> value], <<key>>)

\* the stores a service may be constructed on
InitialStores ==
  { NoFile, BadFile, FileOf(EmptyDict, <<>>),
    OneEntryFile(IkKey(InchikeyTokens), normalize_chemont_entity(PrimaryBody)),
    OneEntryFile(IkKey(InchikeyTokens), BlankEntry) }

\* ClassificationService(config): the cache is loaded from the store;
\* disable_wishart is False after ClassifierConfig() and True when the
\* caller has set it on the config it passes
RInit ==
  /\ store \in InitialStores
  /\ cache = load_cache(store)
  /\ keys = load_keys(store)
  /\ own = None
  /\ disable_wishart \in BOOLEAN
  /\ remote = AnyRemote
  /\ rpc = "idle"
  /\ args = [inchikey |-> NoArg, smiles |-> NoArg]
  /\ trace = <<>>
  /\ result = None
  /\ ncall = 0
  /\ previous = None
  \* no parser is running
  /\ lines = <<>>
  /\ records = <<>>
  /\ current_data = EmptyDict
  /\ current_peaks = <<>>
  /\ out = <<>>
  /\ pc = "loop"

RNext == Call \/ Lookup

SpecResolve == RInit /\ [][RNext]_vars

\* the same, a call that has begun going on to its next step: every
\* request carries a timeout and the one sleep is two seconds long
SpecResolveFair == RInit /\ [][RNext]_vars /\ WF_vars(Lookup)

\* two calls with the same arguments on one service, the remote services
\* answering the same way both times
TwiceEntity(v) ==
  { Same(Http(200, v)),
    Same(Http(200, EmptyDict)),
    <<Http(429, EmptyDict), Http(200, v)>>,
    Same(Exc("Read timed out")) }

TwiceNpc ==
  { Same(Http(200, NpcBody)),
    Same(Http(200, NpcBlankBody)),
    Same(Exc("Read timed out")) }

TInit ==
  /\ store \in {NoFile,
       OneEntryFile(IkKey(InchikeyTokens), normalize_chemont_entity(PrimaryBody)),
       OneEntryFile(IkKey(InchikeyTokens), BlankEntry)}
  /\ cache = load_cache(store)
  /\ keys = load_keys(store)
  /\ own = None
  /\ disable_wishart \in BOOLEAN
  /\ \E bp \in TwiceEntity(PrimaryBody), bm \in TwiceEntity(MirrorBody),
        bc \in TwiceEntity(ClassifyBody), bn \in TwiceNpc :
       remote = [primary |-> {bp}, mirror |-> {bm}, classify |-> {bc}, npc |-> {bn}]
  /\ rpc = "idle"
  /\ \E ik \in InchikeyArgs, sm \in SmilesArgs :
       args = [inchikey |-> ik, smiles |-> sm]
  /\ trace = <<>>
  /\ result = None
  /\ ncall = 0
  /\ previous = None
  \* no parser is running
  /\ lines = <<>>
  /\ records = <<>>
  /\ current_data = EmptyDict
  /\ current_peaks = <<>>
  /\ out = <<>>
  /\ pc = "loop"

TNext == CallAgain \/ Lookup

SpecTwice == TInit /\ [][TNext]_vars

\* ------------------------------------------------------------------------
\* Calls one after the other, on one service or through the module's entry
\* point, which builds its own service for every call
\* ------------------------------------------------------------------------
\* what is kept of the call that has just ended
Ended == [result |-> result, trace |-> trace, args |-> args]

\* a later call of get_compound_classes on the same service
NextCall ==
  /\ rpc = "idle"
  /\ ncall < MaxCalls
  /\ \E ik \in InchikeyArgs, sm \in SmilesArgs :
       Begin([inchikey |-> ik, smiles |-> sm])
  /\ ncall' = ncall + 1
  /\ previous' = IF ncall >= 1 THEN Ended ELSE previous
  /\ own' = None
  /\ UNCHANGED <<cache, keys, store, disable_wishart, remote>>
  /\ UNCHANGED pvars

\* the module's get_compound_classes(inchikey, smiles): a ClassifierConfig
\* of its own (disable_wishart False), a ClassificationService of its own
\* (the cache loaded from the file), then the call on that service
ModuleCall ==
  /\ rpc = "idle"
  /\ ncall < MaxCalls
  /\ IF load_cache_raises(store)
       THEN \* the constructor's exception leaves the entry point
            /\ own' = [cache |-> EmptyDict, keys |-> <<>>, disable_wishart |-> FALSE]
            /\ \E ik \in InchikeyArgs, sm \in SmilesArgs :
                 args' = [inchikey |-> ik, smiles |-> sm]
            /\ trace' = <<>>
            /\ result' = None
            /\ rpc' = "raised"
       ELSE /\ own' = [cache |-> load_cache(store), keys |-> load_keys(store),
                       disable_wishart |-> FALSE]
            /\ \E ik \in InchikeyArgs, sm \in SmilesArgs :
                 Begin([inchikey |-> ik, smiles |-> sm])
  /\ ncall' = ncall + 1
  /\ previous' = IF ncall >= 1 THEN Ended ELSE previous
  /\ UNCHANGED <<cache, keys, disable_wishart, store, remote>>
  /\ UNCHANGED pvars

\* the ways the services answer while several calls are made
LaterRemote ==
  [primary |-> { Same(Http(200, PrimaryBody)),
                 Same(Http(200, EmptyDict)),
                 Same(Exc("Temporary failure in name resolution")) },
   mirror |-> { Same(Http(200, MirrorBody)),
                Same(Http(404, EmptyDict)) },
   classify |-> { Same(Http(200, ClassifyBody)),
                  Same(Exc("Temporary failure in name resolution")) },
   npc |-> { Same(Http(200, NpcBody)),
             Same(Exc("Read timed out")) }]

\* a service has been constructed on a config whose flag the caller may
\* have set, on a file that is absent or holds an entry without ranks
LInit ==
  /\ store \in {NoFile, OneEntryFile(IkKey(InchikeyTokens), BlankEntry)}
  /\ cache = load_cache(store)
  /\ keys = load_keys(store)
  /\ own = None
  /\ disable_wishart \in BOOLEAN
  /\ remote = LaterRemote
  /\ rpc = "idle"
  /\ args = [inchikey |-> NoArg, smiles |-> NoArg]
  /\ trace = <<>>
  /\ result = None
  /\ ncall = 0
  /\ previous = None
  \* no parser is running
  /\ lines = <<>>
  /\ records = <<>>
  /\ current_data = EmptyDict
  /\ current_peaks = <<>>
  /\ out = <<>>
  /\ pc = "loop"

LNext == NextCall \/ ModuleCall \/ Lookup

SpecPipeline == LInit /\ [][LNext]_vars

\* ------------------------------------------------------------------------
\* Runs of the pipeline: no service exists at first, and every call goes
\* through the module's entry point, which constructs its cache from
\* whatever file it finds
\* ------------------------------------------------------------------------
SInit ==
  /\ store \in InitialStores \cup {UndecodableFile}
  \* the caller holds no service
  /\ cache = EmptyDict
  /\ keys = <<>>
  /\ own = None
  /\ disable_wishart = FALSE
  /\ remote = LaterRemote
  /\ rpc = "idle"
  /\ args = [inchikey |-> NoArg, smiles |-> NoArg]
  /\ trace = <<>>
  /\ result = None
  /\ ncall = 0
  /\ previous = None
  \* no parser is running
  /\ lines = <<>>
  /\ records = <<>>
  /\ current_data = EmptyDict
  /\ current_peaks = <<>>
  /\ out = <<>>
  /\ pc = "loop"

SNext == ModuleCall \/ Lookup

SpecRestart == SInit /\ [][SNext]_vars

\* ------------------------------------------------------------------------
\* The trace of a call, read as the fallback chain
\* ------------------------------------------------------------------------
RemoteSteps == {"primary", "mirror", "classify", "npc"}

\* the steps a call with the current arguments takes when every step misses
Chain ==
  (IF inchikey # <<>>
     THEN <<"ik_cache">> \o (IF Running.disable_wishart THEN <<>> ELSE <<"primary">>)
            \o <<"mirror">>
     ELSE <<>>)
  \o
  (IF smiles # <<>>
     THEN <<"smiles_cache">> \o (IF Running.disable_wishart THEN <<>> ELSE <<"classify">>)
            \o <<"npc">>
     ELSE <<>>)

RECURSIVE StepsOf(_)
\* the steps of a trace, the attempts of one step counted once
StepsOf(tr) ==
  IF tr = <<>> THEN <<>>
  ELSE LET rest == StepsOf(SubSeq(tr, 1, Len(tr) - 1))
           s == tr[Len(tr)].step
       IN IF rest # <<>> /\ rest[Len(rest)] = s THEN rest ELSE Append(rest, s)

IsPrefix(a, b) == Len(a) <= Len(b) /\ SubSeq(b, 1, Len(a)) = a

\* the lookup the call is about to make
Pending ==
  CASE rpc = "by_inchikey" -> "ik_cache"
    [] rpc = "by_smiles" -> "smiles_cache"
    [] OTHER -> rpc

RemoteCount(tr) == Cardinality({i \in 1..Len(tr) : tr[i].step \in RemoteSteps})

\* ------------------------------------------------------------------------
\* C9: in every call the lookups happen in the fixed order cache ik:, primary
\* GET, mirror GET, cache smiles:, classify POST, secondary GET (a step that
\* does not apply is left out, a throttled request is repeated once, no step
\* is skipped); as soon as a step yields a valid result that result is
\* returned and nothing is looked up or requested after it; a call that ends
\* without a valid result has taken every step.
\* ------------------------------------------------------------------------
C9_FixedOrder ==
  LET done == StepsOf(trace)
  IN /\ IsPrefix(done, Chain)
     /\ rpc # "idle" => /\ Len(done) < Len(Chain)
                        /\ Chain[Len(done) + 1] = Pending
     /\ \A i \in 1..Len(trace) :
          is_valid_classification(trace[i].yields) =>
            /\ i = Len(trace)
            /\ rpc = "idle"
            /\ result = trace[i].yields
     /\ \A i \in 1..(Len(trace) - 1) :
          trace[i].step = trace[i + 1].step =>
            /\ trace[i].outcome \in {"429", "503"}
            /\ i + 2 <= Len(trace) => trace[i + 2].step # trace[i].step
     /\ (rpc = "idle" /\ ~is_valid_classification(result)) =>
          (trace = <<>> \/ done = Chain)

\* a call has gone through all six lookups, the primary GET throttled and
\* repeated, and returned the secondary classifier's result
C9_Witness ==
  /\ rpc = "idle"
  /\ StepsOf(trace) =
       <<"ik_cache", "primary", "mirror", "smiles_cache", "classify", "npc">>
  /\ \E i \in 1..Len(trace) : trace[i].step = "primary" /\ trace[i].outcome = "429"
  /\ is_valid_classification(result)
  /\ result.source = "NPClassifier"

\* ------------------------------------------------------------------------
\* Two equal calls
\* ------------------------------------------------------------------------
\* two equal calls have been made, the later one has returned
BothDone == ncall >= 2 /\ rpc = "idle"

\* the step that produced the result of a finished call with trace tr
Producer(tr) == tr[Len(tr)].step

\* the earlier call's result came from a step whose result the cache holds
\* under a key the later call looks up before any request
FirstFromCachedStep ==
  /\ is_valid_classification(previous.result)
  /\ \/ Producer(previous.trace) \in {"ik_cache", "primary", "mirror"}
     \/ /\ inchikey = <<>>
        /\ Producer(previous.trace) \in {"smiles_cache", "classify"}

\* ------------------------------------------------------------------------
\* C10 as stated: when the first of two equal calls returned a
\* classification, the second returns the same one, the two calls make at
\* most one remote call together, and the second makes none.
\* ------------------------------------------------------------------------
C10_AtMostOneRemoteCall ==
  (BothDone /\ previous.result # None) =>
    /\ result = previous.result
    /\ RemoteCount(previous.trace) + RemoteCount(trace) <= 1
    /\ RemoteCount(trace) = 0

\* ------------------------------------------------------------------------
\* C10 amended: two equal calls return the same result; the second call
\* makes no remote request when the first result was produced by the
\* InChIKey step (cache, primary or mirror) or, in a call without InChIKey,
\* by the SMILES cache or the classify POST; in every case the second call
\* makes no more remote requests than the first.
\* ------------------------------------------------------------------------
C10_Idempotent ==
  BothDone =>
    /\ result = previous.result
    /\ FirstFromCachedStep => RemoteCount(trace) = 0
    /\ RemoteCount(trace) <= RemoteCount(previous.trace)

\* the first call missed on the primary and got its result from the mirror
\* (two remote calls); the second call is a cache hit
C10_Witness ==
  /\ BothDone
  /\ previous.trace # <<>>
  /\ Producer(previous.trace) = "mirror"
  /\ RemoteCount(previous.trace) = 2
  /\ RemoteCount(trace) = 0
  /\ is_valid_classification(result)
  /\ result = previous.result

\* ------------------------------------------------------------------------
\* C11: when the primary entity GET yields nothing and the mirror GET yields
\* a valid classification, the call returns the mirror's classification and
\* the cache and the file hold it under ik:<inchikey>; a valid entry of the
\* cache or of the file is never changed or dropped afterwards; the next call
\* for that InChIKey, on the same service or on a service built anew from the
\* file, returns it after the cache lookup alone, with no request.
\* ------------------------------------------------------------------------
Last(tr) == tr[Len(tr)]

\* the primary GET was made and yielded nothing, the mirror GET yielded a
\* valid classification
MirrorAfterPrimaryMiss(tr) ==
  /\ tr # <<>>
  /\ \E i \in 1..Len(tr) : tr[i].step = "primary"
  /\ Last(tr).step = "mirror"
  /\ is_valid_classification(Last(tr).yields)

C11_Stored ==
  /\ (rpc = "idle" /\ MirrorAfterPrimaryMiss(trace)) =>
       /\ result = Last(trace).yields
       /\ result = normalize_chemont_entity(MirrorBody)
       /\ cache_get(Running.cache, IkKey(inchikey)) = result
       /\ cache_get(load_cache(store), IkKey(inchikey)) = result
  /\ (ncall >= 2 /\ rpc = "idle" /\ MirrorAfterPrimaryMiss(previous.trace)
        /\ OrEmptyStrip(previous.args.inchikey) = inchikey) =>
       /\ result = previous.result
       /\ trace = <<Event("ik_cache", "hit", result)>>

C11_Kept ==
  /\ \A k \in DOMAIN RunningCache :
       is_valid_classification(RunningCache[k]) =>
         cache_get(RunningCache', k) = RunningCache[k]
  /\ \A k \in DOMAIN load_cache(store) :
       is_valid_classification(load_cache(store)[k]) =>
         cache_get(load_cache(store'), k) = load_cache(store)[k]

C11_MirrorCached == [][C11_Stored' /\ C11_Kept]_vars

\* a call got its classification from the mirror after the primary GET
\* yielded nothing, and the next call for the same InChIKey has returned it
\* from the cache
C11_Witness ==
  /\ ncall >= 2
  /\ rpc = "idle"
  /\ MirrorAfterPrimaryMiss(previous.trace)
  /\ OrEmptyStrip(previous.args.inchikey) = inchikey
  /\ trace = <<Event("ik_cache", "hit", normalize_chemont_entity(MirrorBody))>>
  /\ result = previous.result

\* ------------------------------------------------------------------------
\* Valid classifications, as the claims word them
\* ------------------------------------------------------------------------
Ranks == {"kingdom", "superclass", "class", "subclass", "direct_parent"}

\* at least one of the ranks of r is non-empty
HasRank(r) ==
  /\ r # None
  /\ \E f \in Ranks : f \in DOMAIN r /\ r[f] # ""

\* ------------------------------------------------------------------------
\* C12: whatever a call returns is absent or has at least one non-empty
\* rank, whichever step produced it; in particular a secondary-classifier
\* answer with a non-empty body and no superclass, class or pathway value
\* gives absent.
\* ------------------------------------------------------------------------
C12_NeverInvalid == rpc = "idle" => (result = None \/ HasRank(result))

\* ------------------------------------------------------------------------
\* C13: every value a step writes into the cache, and with it into the file,
\* has at least one non-empty rank; a cache whose entries all have one keeps
\* that property.
\* ------------------------------------------------------------------------
WrittenKeys(c, d) == {k \in DOMAIN d : k \notin DOMAIN c \/ d[k] # c[k]}

AllValid(c) == \A k \in DOMAIN c : HasRank(c[k])

C13_OnlyValidWritten ==
  [][ /\ \A k \in WrittenKeys(cache, cache') : HasRank(cache'[k])
      /\ \A k \in WrittenKeys(load_cache(store), load_cache(store')) :
           HasRank(load_cache(store')[k])
      /\ store' # store => load_cache(store') = cache'
      /\ AllValid(cache) => AllValid(cache')
    ]_vars

\* both keys have been written, the one by an entity GET, the other by the
\* classify POST, and the file holds both
C13_Witness ==
  /\ DOMAIN cache = {IkKey(InchikeyTokens), SmilesKey(SmilesTokens)}
  /\ cache[IkKey(InchikeyTokens)] = normalize_chemont_entity(MirrorBody)
  /\ cache[SmilesKey(SmilesTokens)] = normalize_chemont_entity(ClassifyBody)
  /\ load_cache(store) = cache

\* ------------------------------------------------------------------------
\* The provider-disable flag
\* ------------------------------------------------------------------------
\* a request of the trace to the primary provider's host met a
\* name-resolution failure
MetNameResolutionFailure(tr) ==
  \E i \in 1..Len(tr) : tr[i].step \in WishartSteps /\ tr[i].outcome = "dns"

RequestsTo(tr, steps) == {i \in 1..Len(tr) : tr[i].step \in steps}

\* ------------------------------------------------------------------------
\* C14: once a request to the primary provider's host has met a
\* name-resolution failure the flag is set, and the next call, on the same
\* service or through the module's entry point, makes no request to the
\* primary provider.
\* ------------------------------------------------------------------------
C14_DisabledAfterFailure ==
  /\ MetNameResolutionFailure(trace) => Running.disable_wishart
  /\ (ncall >= 2 /\ MetNameResolutionFailure(previous.trace)) =>
       RequestsTo(trace, WishartSteps) = {}

\* ------------------------------------------------------------------------
\* C15: a flag that is set stays set: when the service a call runs on has
\* the flag set, so has the service the next step, of that call or of the
\* next one, runs on, whichever way the next call is made.
\* ------------------------------------------------------------------------
RunningFlag == Running.disable_wishart

C15_NeverCleared == [][RunningFlag => RunningFlag']_vars

\* ------------------------------------------------------------------------
\* C16: while the flag is set no request goes to the primary provider's
\* entity or classify endpoint; a call with no InChIKey, a SMILES and no
\* valid cached entry makes one request, the secondary classifier GET, and
\* returns what that GET yields.
\* ------------------------------------------------------------------------
C16_SkipsPrimary ==
  disable_wishart =>
    /\ RequestsTo(trace, WishartSteps) = {}
    /\ (rpc = "idle" /\ inchikey = <<>> /\ smiles # <<>>
          /\ ~is_valid_classification(cache_get(Running.cache, SmilesKey(smiles)))) =>
         /\ Len(trace) = 2
         /\ trace[1] = Event("smiles_cache", "miss", None)
         /\ trace[2].step = "npc"
         /\ result = trace[2].yields

\* the flag is set, the call had a SMILES alone, and the secondary
\* classifier's answer has been returned
C16_Witness ==
  /\ disable_wishart
  /\ rpc = "idle"
  /\ inchikey = <<>>
  /\ Len(trace) = 2
  /\ trace[2].step = "npc"
  /\ result = [ontology |-> "NPClassifier", kingdom |-> "", superclass |-> "Alcohol",
               class |-> "", subclass |-> "", direct_parent |-> "Amino acids",
               ontology_id |-> "", source |-> "NPClassifier"]

\* ------------------------------------------------------------------------
\* Attempts and steps
\* ------------------------------------------------------------------------
Throttled(ev) == ev.outcome \in {"429", "503"}

Failed(ev) == ev.outcome \in {"exc", "dns"}

\* event i is the first attempt of its step
FirstAttempt(tr, i) == i = 1 \/ tr[i - 1].step # tr[i].step

PosIn(seq, x) == CHOOSE i \in 1..Len(seq) : seq[i] = x

\* the call has gone on from step to the step that follows it in the chain,
\* or has ended if none follows
Advanced(step) ==
  LET p == PosIn(Chain, step)
      done == StepsOf(trace)
  IN IF p = Len(Chain) THEN rpc = "idle" /\ Len(done) = p
     ELSE \/ rpc # "idle" /\ Len(done) = p /\ Pending = Chain[p + 1]
          \/ Len(done) > p /\ done[p + 1] = Chain[p + 1]

\* ------------------------------------------------------------------------
\* C17: every request answered 429 or 503 is sent once more, and no third
\* time, whichever of the four endpoints it goes to.
\* ------------------------------------------------------------------------
C17_RetriedOnce ==
  \A i \in 1..Len(trace) :
    (Throttled(trace[i]) /\ FirstAttempt(trace, i)) =>
      /\ i < Len(trace)
      /\ trace[i + 1].step = trace[i].step
      /\ i + 2 <= Len(trace) => trace[i + 2].step # trace[i].step

\* ------------------------------------------------------------------------
\* C18: an entity endpoint gets at most two attempts in a call, the second
\* one exactly when the first was answered 429 or 503; a valid body on the
\* second attempt is the result of the call; a second attempt that is
\* throttled too yields nothing and the call goes on to the next step.
\* ------------------------------------------------------------------------
C18_SingleRetry ==
  \A e \in {"primary", "mirror"} :
    LET at == RequestsTo(trace, {e})
    IN /\ Cardinality(at) <= 2
       /\ \A i \in at :
            FirstAttempt(trace, i) =>
              /\ Throttled(trace[i]) <=> (i + 1) \in at
              /\ (Throttled(trace[i]) /\ trace[i + 1].outcome = "200"
                    /\ is_valid_classification(trace[i + 1].yields)) =>
                   /\ rpc = "idle"
                   /\ result = trace[i + 1].yields
                   /\ Len(trace) = i + 1
              /\ (Throttled(trace[i]) /\ Throttled(trace[i + 1])) =>
                   /\ trace[i + 1].yields = None
                   /\ Advanced(e)

\* the primary GET was throttled twice and the call went on to the mirror,
\* whose GET was throttled once and then answered with a valid body, which
\* the call returned
C18_Witness ==
  /\ rpc = "idle"
  /\ Len(trace) = 5
  /\ trace[2].step = "primary" /\ trace[2].outcome = "503"
  /\ trace[3].step = "primary" /\ trace[3].outcome = "429"
  /\ trace[4].step = "mirror" /\ trace[4].outcome = "429"
  /\ trace[5].step = "mirror" /\ trace[5].outcome = "200"
  /\ result = normalize_chemont_entity(MirrorBody)

\* ------------------------------------------------------------------------
\* C19: a request that fails at transport level yields nothing, its endpoint
\* gets no further attempt in the call, and the call goes on to the next
\* step (ending with absent when there is none).
\* ------------------------------------------------------------------------
C19_FailureNotRetried ==
  \A i \in 1..Len(trace) :
    Failed(trace[i]) =>
      /\ trace[i].yields = None
      /\ \A j \in (i + 1)..Len(trace) : trace[j].step # trace[i].step
      /\ Advanced(trace[i].step)
      /\ PosIn(Chain, trace[i].step) = Len(Chain) => result = None

\* every request of a call failed at transport level, the primary one by
\* name resolution, and the call returned absent
C19_Witness ==
  /\ rpc = "idle"
  /\ result = None
  /\ Len(trace) = 6
  /\ trace[2].step = "primary" /\ trace[2].outcome = "dns"
  /\ trace[3].step = "mirror" /\ trace[3].outcome = "exc"
  /\ trace[5].step = "classify" /\ trace[5].outcome = "exc"
  /\ trace[6].step = "npc" /\ trace[6].outcome = "exc"

\* ------------------------------------------------------------------------
\* C20: a call returns absent exactly when no step of it yields a
\* classification with a non-empty rank, and then it has taken every
\* applicable step; with no InChIKey and no SMILES it returns absent without
\* any lookup.
\* ------------------------------------------------------------------------
C20_AbsentIffAllMiss ==
  rpc = "idle" =>
    /\ result = None <=> \A i \in 1..Len(trace) : ~HasRank(trace[i].yields)
    /\ result = None => StepsOf(trace) = Chain
    /\ (inchikey = <<>> /\ smiles = <<>>) => (result = None /\ trace = <<>>)

\* ------------------------------------------------------------------------
\* C21: the cache is write-through.  In every state the file, read the way
\* _load_cache reads it, gives the mapping the cache holds in memory, and
\* once the cache holds an entry the file is the document save writes for
\* that mapping: nothing put is missing from the file.
\* ------------------------------------------------------------------------
C21_WriteThrough ==
  /\ load_cache(store) = cache
  /\ DOMAIN cache # {} => store = FileOf(cache, keys)

\* a call has put a second entry next to the one the file held at first
C21_Witness ==
  /\ rpc = "idle"
  /\ ncall = 0
  /\ trace # <<>>
  /\ Last(trace).yields # None
  /\ DOMAIN cache = {IkKey(InchikeyTokens), SmilesKey(SmilesTokens)}
  /\ store = FileOf(cache, keys)
  /\ load_cache(store)[SmilesKey(SmilesTokens)] = result

\* ------------------------------------------------------------------------
\* C22: constructing the cache on a file that is missing, unreadable or
\* corrupt in any way never raises: no call through the entry point ends
\* with the constructor's exception, and a cache constructed on a file that
\* holds no JSON object starts empty.
\* ------------------------------------------------------------------------
C22_ConstructsEmpty ==
  /\ rpc # "raised"
  /\ (ncall = 1 /\ trace = <<>> /\ ~(store.exists /\ store.json)) =>
       RunningCache = EmptyDict

\* ------------------------------------------------------------------------
\* C23: the cache survives a reload.  A call that follows another one
\* through the entry point constructs its cache from the file, and that
\* cache is the mapping the service before it held; when the call before
\* put a classification under a key and this call looks that key up first
\* (the same InChIKey, or the same SMILES with no InChIKey), it returns
\* that classification from the cache without a request.
\* ------------------------------------------------------------------------
\* the key the call before put its result under, "" when it put nothing
PutKey ==
  IF previous = None \/ previous.trace = <<>> \/ Last(previous.trace).yields = None
    THEN ""
  ELSE IF Last(previous.trace).step \in {"primary", "mirror"}
    THEN IkKey(OrEmptyStrip(previous.args.inchikey))
  ELSE IF Last(previous.trace).step = "classify"
    THEN SmilesKey(OrEmptyStrip(previous.args.smiles))
  ELSE ""

\* the key the call looks up first
FirstKey ==
  IF inchikey # <<>> THEN IkKey(inchikey)
  ELSE IF smiles # <<>> THEN SmilesKey(smiles)
  ELSE ""

C23_Reloaded ==
  (ncall >= 1 /\ ncall' = ncall + 1) =>
    /\ RunningCache' = RunningCache
    /\ Running'.keys = Running.keys
    /\ RunningCache' = load_cache(store')

C23_SameAnswer ==
  (ncall >= 2 /\ rpc = "idle" /\ PutKey # "" /\ FirstKey = PutKey) =>
    /\ result = previous.result
    /\ result = RunningCache[PutKey]
    /\ RemoteCount(trace) = 0
    /\ Len(trace) = 1

C23_RoundTrip == [][C23_Reloaded /\ C23_SameAnswer']_vars

\* a call put the classify POST's result under the SMILES key next to the
\* entry the file held, and the next call, on a cache loaded from the
\* file, has answered the same SMILES from it
C23_Witness ==
  /\ ncall = 2
  /\ rpc = "idle"
  /\ PutKey = SmilesKey(SmilesTokens)
  /\ FirstKey = PutKey
  /\ DOMAIN RunningCache = {IkKey(InchikeyTokens), SmilesKey(SmilesTokens)}
  /\ trace = <<Event("smiles_cache", "hit", normalize_chemont_entity(ClassifyBody))>>
  /\ result = previous.result

\* ------------------------------------------------------------------------
\* The secondary classifier's normalizer
\* ------------------------------------------------------------------------
\* the first element of the array of that name, "" when the response has no
\* such array or an empty one
FirstElement(body, name) ==
  IF name \in DOMAIN body /\ Len(body[name]) >= 1 THEN Head(body[name]) ELSE ""

\* the result the normalizer is to make of a response
NpcResult(body) ==
  [ontology |-> "NPClassifier",
   source |-> "NPClassifier",
   direct_parent |-> FirstElement(body, "pathway"),
   superclass |-> FirstElement(body, "superclass"),
   class |-> FirstElement(body, "class"),
   kingdom |-> "",
   subclass |-> "",
   ontology_id |-> ""]

\* the responses the secondary classifier gives with a status below 400
NpcResponses ==
  {b[1].body : b \in {x \in remote["npc"] : HasResponse(<<x[1]>>) /\ Ok(x[1])}}

\* the call is making the request to the secondary classifier
NpcStep == rpc = "npc" /\ rpc' = "idle"

\* C24 as stated: the normalizer makes the result NpcResult of every
\* response, with "" for every array that is missing or empty, and a call
\* the secondary classifier answers returns such a result.
C24_AlwaysResult ==
  [][NpcStep =>
       /\ \A body \in NpcResponses : normalize_npclassifier(body) = NpcResult(body)
       /\ Last(trace').outcome = "200" =>
            \E body \in NpcResponses : result' = NpcResult(body)]_vars

\* C24, amended: the normalizer makes the result NpcResult of every response
\* that has a member, and no result (None) of the response without members;
\* a call the secondary classifier answers returns what the normalizer
\* makes of one of its responses.  Of {superclass: [Alcohol], pathway:
\* [Amino acids]} it makes superclass Alcohol, direct_parent Amino acids and
\* class "".
C24_Normalized ==
  [][NpcStep =>
       /\ \A body \in NpcResponses :
            normalize_npclassifier(body) =
              IF DOMAIN body = {} THEN None ELSE NpcResult(body)
       /\ Last(trace').outcome = "200" =>
            \E body \in NpcResponses :
              result' = IF DOMAIN body = {} THEN None ELSE NpcResult(body)
       /\ normalize_npclassifier(NpcBody).superclass = "Alcohol"
       /\ normalize_npclassifier(NpcBody).direct_parent = "Amino acids"
       /\ normalize_npclassifier(NpcBody).class = ""]_vars

\* the secondary classifier has answered with several values per array and
\* the call has returned the first of each
C24_Witness ==
  /\ rpc = "idle"
  /\ trace # <<>>
  /\ Last(trace).step = "npc"
  /\ Last(trace).outcome = "200"
  /\ result = NpcResult(NpcManyBody)
  /\ result.class = "Flavones"
  /\ result.direct_parent = "Shikimates and Phenylpropanoids"

\* ------------------------------------------------------------------------
\* C25: a field line whose cleaned name FIELD_PARSERS does not hold is
\* ignored silently: reading it changes neither the records, nor the
\* accumulated fields, nor the accumulated peaks, prints nothing, and the
\* loop goes on; and no line that contains a colon adds a peak.
\* ------------------------------------------------------------------------
HasColon(l) == \E i \in 1..Len(l) : l[i] = COLON

C25_UnknownIgnored ==
  [][\A l \in InputLines :
       (Reads(l) /\ HasColon(l)) =>
         /\ LineName(l) \notin DOMAIN FIELD_PARSERS =>
              /\ records' = records
              /\ current_data' = current_data
              /\ current_peaks' = current_peaks
              /\ out' = out
              /\ pc' = "loop"
         /\ current_peaks' \in {current_peaks, <<>>}]_vars

\* an unrecognized field line was read while the accumulator held a field
\* and a peak, and both are still there with nothing printed
C25_Witness ==
  /\ pc = "loop"
  /\ Len(lines) >= 3
  /\ HasColon(Last(lines))
  /\ LineName(Last(lines)) = "COMMENT"
  /\ DOMAIN current_data # {}
  /\ current_peaks # <<>>
  /\ records = <<>>
  /\ out = <<>>

\* ------------------------------------------------------------------------
\* C26: a flush (a CHARGE line is read, or the input ends) appends a record
\* if and only if the accumulator holds a field and a peak, and that record
\* is the accumulator; otherwise the records stay as they are.  The flush
\* prints nothing and leaves no peak behind: peaks gathered without a
\* converted field are dropped and are in no later record.
\* ------------------------------------------------------------------------
FlushStep ==
  /\ pc = "loop"
  /\ \/ pc' = "done"
     \/ Len(lines') = Len(lines) + 1 /\ IsChargeLine(Last(lines'))

C26_RecordIffFieldAndPeak ==
  [][FlushStep =>
       /\ IF DOMAIN current_data # {} /\ current_peaks # <<>>
            THEN /\ Len(records') = Len(records) + 1
                 /\ SubSeq(records', 1, Len(records)) = records
                 /\ Last(records').fields = current_data
                 /\ Last(records').peaks = current_peaks
            ELSE records' = records
       /\ current_peaks' = <<>>
       /\ DOMAIN current_data' \subseteq {"charge"}
       /\ out' # out =>
            /\ pc' = "loop"
            /\ IsMalformed(Last(lines'))
            /\ Len(out') = Len(out) + 1
            /\ out'[Len(out')][1] = "Warning: Could not parse"]_vars

\* a peak read before any field was dropped at the CHARGE line, and the
\* record of the next segment holds the later peak only
C26_Witness ==
  /\ pc = "done"
  /\ Len(lines) = 3
  /\ IsPeakLine(lines[1])
  /\ IsChargeLine(lines[2])
  /\ IsConverted(lines[2])
  /\ IsPeakLine(lines[3])
  /\ PeakOf(lines[1]) # PeakOf(lines[3])
  /\ Len(records) = 1
  /\ records[1].peaks = <<PeakOf(lines[3])>>
  /\ out = <<>>

\* ------------------------------------------------------------------------
\* C27: every call ends, after a bounded number of requests whatever the
\* services answer: at most two attempts each of the primary entity GET,
\* the mirror entity GET and the classify POST, at most one of the
\* secondary classifier's GET, at most seven in all, and no step of the
\* chain is taken a second time.
\* ------------------------------------------------------------------------
AttemptsOf(step) == Cardinality(RequestsTo(trace, {step}))

C27_Bounded ==
  /\ AttemptsOf("primary") <= 2
  /\ AttemptsOf("mirror") <= 2
  /\ AttemptsOf("classify") <= 2
  /\ AttemptsOf("npc") <= 1
  /\ RemoteCount(trace) <= 7
  /\ \A i, j \in 1..Len(StepsOf(trace)) :
       i # j => StepsOf(trace)[i] # StepsOf(trace)[j]

C27_Terminates == []C27_Bounded /\ ((rpc # "idle") ~> (rpc = "idle"))

\* a call has ended after seven requests: every ClassyFire request was
\* throttled twice and the secondary classifier was asked once
C27_Witness ==
  /\ rpc = "idle"
  /\ RemoteCount(trace) = 7
  /\ AttemptsOf("primary") = 2
  /\ AttemptsOf("mirror") = 2
  /\ AttemptsOf("classify") = 2
  /\ AttemptsOf("npc") = 1

\* ------------------------------------------------------------------------
\* C28: a valid cache entry is never changed or removed by a later call.  A
\* step writes at most one key: ik:<inchikey> after the call's lookup under
\* that key missed (no entry, or one that is not valid) and an entity GET
\* gave the result, or smiles:<smiles> after the lookup under that key
\* missed and the classify POST gave it; every other entry, in the cache
\* and in the file, stays as it is.
\* ------------------------------------------------------------------------
\* the lookup under the key of that cache step missed in this call
Missed(step) == \E i \in 1..Len(trace) : trace[i] = Event(step, "miss", None)

C28_Step ==
  /\ \A k \in DOMAIN RunningCache :
       HasRank(RunningCache[k]) => k \in DOMAIN RunningCache' /\ RunningCache'[k] = RunningCache[k]
  /\ \A k \in DOMAIN load_cache(store) :
       HasRank(load_cache(store)[k]) =>
         k \in DOMAIN load_cache(store') /\ load_cache(store')[k] = load_cache(store)[k]
  /\ DOMAIN RunningCache \subseteq DOMAIN RunningCache'
  /\ Cardinality(WrittenKeys(RunningCache, RunningCache')) <= 1
  /\ WrittenKeys(load_cache(store), load_cache(store')) = WrittenKeys(RunningCache, RunningCache')
  /\ \A k \in WrittenKeys(RunningCache, RunningCache') :
       /\ k \notin DOMAIN RunningCache \/ ~HasRank(RunningCache[k])
       /\ \/ /\ k = IkKey(inchikey)
             /\ inchikey # <<>>
             /\ rpc \in {"primary", "mirror"}
             /\ Missed("ik_cache")
          \/ /\ k = SmilesKey(smiles)
             /\ smiles # <<>>
             /\ rpc = "classify"
             /\ Missed("smiles_cache")
       /\ RunningCache'[k] = result'
       /\ HasRank(RunningCache'[k])

\* the steps of a call, and the construction of the service of a call that
\* follows another one
C28_ValidEntryKept == [][(rpc # "idle" \/ ncall >= 1) => C28_Step]_vars

\* a call has put its result under the InChIKey's key, where the file held
\* an entry without ranks, and the entry the call before put under the
\* SMILES key is still what that call returned
C28_Witness ==
  /\ ncall = 2
  /\ rpc = "idle"
  /\ PutKey = SmilesKey(SmilesTokens)
  /\ trace # <<>>
  /\ Last(trace).step \in {"primary", "mirror"}
  /\ Last(trace).yields = result
  /\ DOMAIN RunningCache = {IkKey(InchikeyTokens), SmilesKey(SmilesTokens)}
  /\ RunningCache[IkKey(InchikeyTokens)] = result
  /\ RunningCache[SmilesKey(SmilesTokens)] = previous.result
  /\ load_cache(store) = RunningCache

====
